---- MODULE Spec2Model ----
(***************************************************************************)
(* GitAuthHelper (src/src/git/git-auth-helper.ts): the git credential      *)
(* lifecycle of one helper object.  Every public method is a sequence of   *)
(* awaited calls; the model runs one call per step, in the order of the    *)
(* source, against config files, ephemeral files and the git command       *)
(* manager's environment.                                                  *)
(***************************************************************************)
EXTENDS Integers, Sequences, FiniteSets, TLC

VARIABLES
  settings,            \* IGitSourceSettings: sshKey, persistCredentials, ...
  runnerTemp,          \* process.env['RUNNER_TEMP'] is defined
  stateSshKeyPath,     \* stateHelper.SshKeyPath (0 is '')
  stateSshKnownHostsPath, \* stateHelper.SshKnownHostsPath (0 is '')
  files,               \* the config files, by path
  keyFiles,            \* SSH key files on disk, by unique id
  knownHostsFiles,     \* known-hosts files on disk, by unique id
  tempHomeDir,         \* the temporary HOME directory exists
  sshKeyPath,          \* this._sshKeyPath (0 is '')
  sshKnownHostsPath,   \* this._sshKnownHostsPath (0 is '')
  sshCommand,          \* this._sshCommand (0 is '')
  temporaryHomePath,   \* this._temporaryHomePath is set
  gitEnv,              \* the git command manager's environment overrides
  uuidCount,           \* how many unique ids uuidv4() has handed out
  op,                  \* the public method running, or last run
  todo,                \* the awaited calls it still has to make
  outcome,             \* "idle", "running", "ok" or "error"
  err,                 \* the error raised, "" if none
  log,                 \* the calls the method has made so far
  lifecycle,           \* how many methods of Lifecycle the latest calls have
                       \* made in a row, each returning before the next
  deleteFailed,        \* an rmRF of removeSsh failed in the method running
  faults,              \* calls the environment has made fail so far
  repeat,              \* removeAuth is running right after a removeAuth: "again"
                       \* ("retry" if that one failed to delete a file), else ""
  roundTrip,           \* one config file taken through configureToken's two writes
  hosts,               \* the known-hosts text configureSsh builds from its inputs
  action               \* one run of the action: run() and the service it calls

vars == <<settings, runnerTemp, stateSshKeyPath, stateSshKnownHostsPath, files,
          keyFiles, knownHostsFiles, tempHomeDir, sshKeyPath, sshKnownHostsPath,
          sshCommand, temporaryHomePath, gitEnv, uuidCount, op, todo, outcome,
          err, log, lifecycle, deleteFailed, faults, repeat, roundTrip, hosts, action>>

----------------------------------------------------------------------------
(* Bounds *)

\* submodules of the repository; odd ones are top-level, even ones nested
NSub == 2
\* unique ids uuidv4() can hand out
MaxUuid == 2
\* calls the environment makes fail (a deletion, a git command, a copy, a
\* lookup); failures the files themselves cause are not counted
MaxFaults == 1

Subs == 1..NSub
IsNested(i) == i % 2 = 0

----------------------------------------------------------------------------
(* Keys and values *)

SSH_COMMAND_KEY == "core.sshCommand"
tokenConfigKey == "http.https://github.com/.extraheader"
insteadOfKey == "url.https://github.com/.insteadOf"
\* keys the helper never writes: a user's own entry, another server's header
userKey == "user.name"
otherHeaderKey == "http.https://other/.extraheader"

Val(t, id) == [t |-> t, id |-> id]
NoVal == Val("", 0)
tokenPlaceholderConfigValue == Val("AUTHORIZATION: basic ***", 0)
tokenConfigValue == Val("AUTHORIZATION: basic <basicCredential>", 0)
userValue == Val("user", 0)
\* `"${sshPath}" -i "$RUNNER_TEMP/<id>" ... UserKnownHostsFile=$RUNNER_TEMP/<id>_known_hosts`
SshCommandValue(id) == Val("ssh -i $RUNNER_TEMP/<id>", id)

insteadOfValues ==
  <<Val("git@github.com:", 0)>> \o
  (IF settings.workflowOrganizationId
     THEN <<Val("org-<id>@github.com:", 0)>>
     ELSE <<>>)

Entry(k, v) == [k |-> k, v |-> v]

----------------------------------------------------------------------------
(* Paths of the config files *)

Path(k, i) == [k |-> k, i |-> i]
LocalConfig == Path("local", 0)      \* <workingDirectory>/.git/config
UserGitConfig == Path("user", 0)     \* <HOME>/.gitconfig of the user
TempGitConfig == Path("temp", 0)     \* <temporaryHomePath>/.gitconfig
SubConfig(i) == Path("sub", i)       \* local config of submodule i
Paths == {LocalConfig, UserGitConfig, TempGitConfig} \cup {SubConfig(i) : i \in Subs}

File(c) == [ex |-> TRUE, c |-> c]
NoFile == [ex |-> FALSE, c |-> <<>>]

----------------------------------------------------------------------------
(* Config file content: the sequence of its entries *)

Indices(c, P(_)) == {i \in 1..Len(c) : P(c[i])}
CountKey(c, k) == Cardinality(Indices(c, LAMBDA e : e.k = k))
CountValue(c, v) == Cardinality(Indices(c, LAMBDA e : e.v = v))
CountEntry(c, k, v) == Cardinality(Indices(c, LAMBDA e : e.k = k /\ e.v = v))
ValuesOf(c, k) == SelectSeq(c, LAMBDA e : e.k = k)

Min(S) == CHOOSE x \in S : \A y \in S : x <= y
Max(S) == CHOOSE x \in S : \A y \in S : y <= x

\* String.prototype.indexOf / lastIndexOf on the content, 0-based, -1 if absent
indexOf(c, v) ==
  LET S == Indices(c, LAMBDA e : e.v = v) IN IF S = {} THEN -1 ELSE Min(S) - 1
lastIndexOf(c, v) ==
  LET S == Indices(c, LAMBDA e : e.v = v) IN IF S = {} THEN -1 ELSE Max(S) - 1
\* String.prototype.replace with a string pattern: the first occurrence only
replace(c, v, w) ==
  LET i == indexOf(c, v) IN
  IF i < 0 THEN c
  ELSE [j \in 1..Len(c) |-> IF j = i + 1 THEN Entry(c[j].k, w) ELSE c[j]]

----------------------------------------------------------------------------
(* The git command manager (IGitCommandManager), on one file's content *)

Result(ok, c) == [ok |-> ok, c |-> c]

\* config(key, value, global, add): `git config [--add] key value`.  Without
\* --add git replaces the key's single value, appends a missing key, and
\* refuses to overwrite a key that has several values.
GitConfigSet(c, key, val, add) ==
  IF add \/ CountKey(c, key) = 0 THEN Result(TRUE, Append(c, Entry(key, val)))
  ELSE IF CountKey(c, key) = 1
    THEN Result(TRUE, [j \in 1..Len(c) |->
                         IF c[j].k = key THEN Entry(key, val) ELSE c[j]])
  ELSE Result(FALSE, c)

\* configExists(key): `git config --get-regexp` finds the key
GitConfigExists(c, key) == CountKey(c, key) > 0

\* tryConfigUnset(key, global): `git config --unset-all key`, false if absent
GitTryConfigUnset(c, key) ==
  Result(CountKey(c, key) > 0, SelectSeq(c, LAMBDA e : e.k # key))

\* submoduleForeach(command, recursive) visits these submodules, in order
Visited(recursive) == {i \in Subs : recursive \/ ~IsNested(i)}

\* the environment decides which file `git config --global` works on
GlobalConfigPath == IF gitEnv.HOME THEN TempGitConfig ELSE UserGitConfig
TargetPath(global) == IF global THEN GlobalConfigPath ELSE LocalConfig

----------------------------------------------------------------------------
(* replaceTokenPlaceholder, lines 327-346, on the content read *)

replaceTokenPlaceholder_NoDuplicateCheck(content) ==
  LET placeholderIndex == indexOf(content, tokenPlaceholderConfigValue) IN
  IF placeholderIndex < 0
    THEN Result(FALSE, content)
    ELSE Result(TRUE, replace(content, tokenPlaceholderConfigValue, tokenConfigValue))

\* a replaceTokenPlaceholder that drops the result of content.replace(...)
replaceTokenPlaceholder_ResultDropped(content) ==
  LET placeholderIndex == indexOf(content, tokenPlaceholderConfigValue) IN
  IF \/ placeholderIndex < 0
     \/ placeholderIndex # lastIndexOf(content, tokenPlaceholderConfigValue)
    THEN Result(FALSE, content)
    ELSE Result(TRUE, content)

replaceTokenPlaceholder(content) ==
  LET placeholderIndex == indexOf(content, tokenPlaceholderConfigValue) IN
  IF \/ placeholderIndex < 0
     \/ placeholderIndex # lastIndexOf(content, tokenPlaceholderConfigValue)
    THEN Result(FALSE, content)
    ELSE Result(TRUE, replace(content, tokenPlaceholderConfigValue, tokenConfigValue))

----------------------------------------------------------------------------
(* The awaited calls of the methods.  A step names the call, its arguments *)
(* and whether it stands inside configureGlobalAuth's try block.           *)

Step(l, key, val, path, g, add) ==
  [l |-> l, key |-> key, val |-> val, path |-> path, g |-> g, add |-> add,
   try |-> FALSE]
NoPath == Path("", 0)
\* the value of this._sshCommand when the call is made
SshCommandRef == Val("this._sshCommand", 0)
Resolve(v) == IF v = SshCommandRef THEN SshCommandValue(sshCommand) ELSE v

\* assert.ok(cond, message)
AssertOk(cond, message) ==
  IF cond THEN <<>> ELSE <<Step("assert", message, NoVal, NoPath, FALSE, FALSE)>>

\* removeGitConfig(configKey, submoduleOnly), lines 381-401: one step, none
\* of its calls throws (the step's g field holds submoduleOnly)
removeGitConfig(configKey, submoduleOnly) ==
  <<Step("removeGitConfig", configKey, NoVal, NoPath, submoduleOnly, FALSE)>>

\* removeSsh, lines 348-374
removeSsh ==
  <<Step("rmRF", "sshKey", NoVal, NoPath, FALSE, FALSE),
    Step("rmRF", "sshKnownHosts", NoVal, NoPath, FALSE, FALSE)>>
  \o removeGitConfig(SSH_COMMAND_KEY, FALSE)

\* removeToken, lines 376-379
removeToken == removeGitConfig(tokenConfigKey, FALSE)

\* a removeAuth that forgets the token
removeAuth_SshOnly == removeSsh

\* removeAuth, lines 210-213
removeAuth == removeSsh \o removeToken

\* a configureSsh without the assertion on RUNNER_TEMP
configureSsh_NoAssert ==
  IF ~settings.sshKey THEN <<>>
  ELSE <<Step("writeKey", "", NoVal, NoPath, FALSE, FALSE),
         Step("writeKnownHosts", "", NoVal, NoPath, FALSE, FALSE),
         Step("setSshCommand", "", NoVal, NoPath, FALSE, FALSE)>>
       \o (IF settings.persistCredentials
             THEN <<Step("config", SSH_COMMAND_KEY, SshCommandRef, NoPath, FALSE, FALSE)>>
             ELSE <<>>)

\* configureSsh, lines 223-297
configureSsh ==
  IF ~settings.sshKey THEN <<>>
  ELSE AssertOk(runnerTemp, "RUNNER_TEMP is not defined")
       \o <<Step("writeKey", "", NoVal, NoPath, FALSE, FALSE),
            Step("writeKnownHosts", "", NoVal, NoPath, FALSE, FALSE),
            Step("setSshCommand", "", NoVal, NoPath, FALSE, FALSE)>>
       \o (IF settings.persistCredentials
             THEN <<Step("config", SSH_COMMAND_KEY, SshCommandRef, NoPath, FALSE, FALSE)>>
             ELSE <<>>)

\* configureToken(configPath, globalConfig), lines 299-325
configureToken_RealValue(configPath, globalConfig) ==
  AssertOk((configPath # NoPath /\ globalConfig) \/ (configPath = NoPath /\ ~globalConfig),
           "Unexpected configureToken parameter combinations")
  \o <<Step("config", tokenConfigKey, tokenConfigValue, NoPath, globalConfig, FALSE)>>

configureToken(configPath, globalConfig) ==
  AssertOk((configPath # NoPath /\ globalConfig) \/ (configPath = NoPath /\ ~globalConfig),
           "Unexpected configureToken parameter combinations")
  \o <<Step("config", tokenConfigKey, tokenPlaceholderConfigValue, NoPath, globalConfig, FALSE),
       Step("replace", "", NoVal,
            IF configPath = NoPath /\ ~globalConfig THEN LocalConfig ELSE configPath,
            FALSE, FALSE)>>

\* a configureAuth that removes after it has configured
configureAuth_ConfigureFirst ==
  configureSsh \o configureToken(NoPath, FALSE) \o removeAuth

\* a configureAuth without the removeAuth of line 87
configureAuth_NoPreClean == configureSsh \o configureToken(NoPath, FALSE)

\* configureAuth, lines 85-92
configureAuth == removeAuth \o configureSsh \o configureToken(NoPath, FALSE)

\* a configureTempGlobalConfig without the early return of lines 96-98
configureTempGlobalConfig_NotLazy ==
  AssertOk(runnerTemp, "RUNNER_TEMP is not defined")
  \o <<Step("mkdirTempHome", "", NoVal, NoPath, FALSE, FALSE),
       Step("copyGlobalConfig", "", NoVal, NoPath, FALSE, FALSE)>>

\* configureTempGlobalConfig, lines 94-139
configureTempGlobalConfig ==
  IF temporaryHomePath THEN <<>>
  ELSE AssertOk(runnerTemp, "RUNNER_TEMP is not defined")
       \o <<Step("mkdirTempHome", "", NoVal, NoPath, FALSE, FALSE),
            Step("copyGlobalConfig", "", NoVal, NoPath, FALSE, FALSE)>>

\* try { ... }: the steps of the block
Try(steps) == [i \in 1..Len(steps) |-> [steps[i] EXCEPT !.try = TRUE]]

\* the catch block of configureGlobalAuth, lines 160-167
CatchBlock ==
  <<Step("tryConfigUnset", tokenConfigKey, NoVal, NoPath, TRUE, FALSE),
    Step("rethrow", "", NoVal, NoPath, FALSE, FALSE)>>

\* for (const insteadOfValue of this._insteadOfValues) git.config(..., true, true)
ConfigInsteadOf ==
  [i \in 1..Len(insteadOfValues) |->
     Step("config", insteadOfKey, insteadOfValues[i], NoPath, TRUE, TRUE)]

\* a configureGlobalAuth without the try/catch
configureGlobalAuth_NoCatch ==
  configureTempGlobalConfig
  \o configureToken(TempGitConfig, TRUE)
  \o <<Step("tryConfigUnset", insteadOfKey, NoVal, NoPath, TRUE, FALSE)>>
  \o (IF ~settings.sshKey THEN ConfigInsteadOf ELSE <<>>)

\* a configureGlobalAuth that does not unset the insteadOf key first
configureGlobalAuth_NoUnset ==
  configureTempGlobalConfig
  \o Try(configureToken(TempGitConfig, TRUE)
         \o (IF ~settings.sshKey THEN ConfigInsteadOf ELSE <<>>))

\* configureGlobalAuth, lines 141-168
configureGlobalAuth ==
  configureTempGlobalConfig
  \o Try(configureToken(TempGitConfig, TRUE)
         \o <<Step("tryConfigUnset", insteadOfKey, NoVal, NoPath, TRUE, FALSE)>>
         \o (IF ~settings.sshKey THEN ConfigInsteadOf ELSE <<>>))

\* submoduleForeach(`git config --local [--add] key value`, nestedSubmodules)
SubmoduleSet(key, val, add) == Step("subSet", key, val, NoPath, FALSE, add)

\* submoduleForeach(`git config --local key placeholder && git config --local
\* --show-origin --name-only --get-regexp remote.origin.url`, nestedSubmodules)
SubmodulePlaceholder ==
  Step("subPlaceholder", tokenConfigKey, tokenPlaceholderConfigValue, NoPath, FALSE, FALSE)

\* a configureSubmoduleAuth without the removeGitConfig of line 172
configureSubmoduleAuth_NoRemove ==
  IF settings.persistCredentials
    THEN <<SubmodulePlaceholder>>
         \o (IF settings.sshKey
               THEN <<SubmoduleSet(SSH_COMMAND_KEY, SshCommandRef, FALSE)>>
               ELSE [i \in 1..Len(insteadOfValues) |->
                       SubmoduleSet(insteadOfKey, insteadOfValues[i], TRUE)])
    ELSE <<>>

\* configureSubmoduleAuth, lines 170-208
configureSubmoduleAuth ==
  removeGitConfig(insteadOfKey, TRUE)
  \o (IF settings.persistCredentials
        THEN <<SubmodulePlaceholder>>
             \o (IF settings.sshKey
                   THEN <<SubmoduleSet(SSH_COMMAND_KEY, SshCommandRef, FALSE)>>
                   ELSE [i \in 1..Len(insteadOfValues) |->
                           SubmoduleSet(insteadOfKey, insteadOfValues[i], TRUE)])
        ELSE <<>>)

\* removeGlobalConfig, lines 215-221
removeGlobalConfig ==
  IF temporaryHomePath
    THEN <<Step("removeHome", "", NoVal, NoPath, FALSE, FALSE)>>
    ELSE <<>>

----------------------------------------------------------------------------
(* Initial state: a helper just constructed *)

ConfigureMethods ==
  {"configureAuth", "configureTempGlobalConfig", "configureGlobalAuth",
   "configureSubmoduleAuth"}
RemoveMethods == {"removeAuth", "removeGlobalConfig"}
\* the helper's use from set-up to clean-up
Lifecycle ==
  <<"configureAuth", "configureGlobalAuth", "configureSubmoduleAuth", "removeAuth",
    "removeGlobalConfig">>

\* what a config file can hold before the helper runs: the user's own entry;
\* the entries an earlier run left; a placeholder left under another
\* server's header key
FreshContent == <<Entry(userKey, userValue)>>
StaleLocalContent ==
  <<Entry(userKey, userValue), Entry(tokenConfigKey, tokenConfigValue),
    Entry(SSH_COMMAND_KEY, SshCommandValue(1))>>
StaleSubContent ==
  <<Entry(tokenConfigKey, tokenConfigValue),
    Entry(insteadOfKey, Val("git@github.com:", 0))>>
ForeignContent ==
  <<Entry(userKey, userValue), Entry(otherHeaderKey, tokenPlaceholderConfigValue)>>

\* the files the helper finds: as a fresh checkout leaves them; as an earlier
\* run left them (its entries, its key files, its saved state, no .gitconfig
\* of the user yet); or with a placeholder under another server's header key
Worlds == {"fresh", "stale", "foreign"}

\* nothing but the helper is looked at
NotRun == [pc |-> "none"]

Init ==
  \* a setting the helper never reads stays unset: nestedSubmodules is read
  \* only when persistCredentials is set (line 174), and the rewrite values
  \* only when there is no sshKey (lines 150, 192)
  /\ settings \in {s \in [sshKey : BOOLEAN, persistCredentials : BOOLEAN,
                          nestedSubmodules : BOOLEAN,
                          workflowOrganizationId : BOOLEAN] :
                      /\ s.nestedSubmodules => s.persistCredentials
                      /\ s.workflowOrganizationId => ~s.sshKey}
  /\ runnerTemp \in BOOLEAN
  /\ \E world \in Worlds :
       /\ stateSshKeyPath = (IF world = "stale" THEN 1 ELSE 0)
       /\ stateSshKnownHostsPath = (IF world = "stale" THEN 1 ELSE 0)
       /\ keyFiles = (IF world = "stale" THEN {1} ELSE {})
       /\ knownHostsFiles = (IF world = "stale" THEN {1} ELSE {})
       /\ uuidCount = (IF world = "stale" THEN 1 ELSE 0)
       /\ files = [p \in Paths |->
            IF p = LocalConfig
              THEN File(CASE world = "stale" -> StaleLocalContent
                          [] world = "foreign" -> ForeignContent
                          [] OTHER -> FreshContent)
            ELSE IF p = UserGitConfig
              THEN (CASE world = "stale" -> NoFile
                      [] world = "foreign" -> File(ForeignContent)
                      [] OTHER -> File(FreshContent))
            ELSE IF p = TempGitConfig THEN NoFile
            ELSE File(CASE world = "stale" -> StaleSubContent
                        [] world = "foreign" /\ p.i = 1 -> ForeignContent
                        [] OTHER -> <<>>)]
  /\ tempHomeDir = FALSE
  /\ sshKeyPath = 0
  /\ sshKnownHostsPath = 0
  /\ sshCommand = 0
  /\ temporaryHomePath = FALSE
  /\ gitEnv = [HOME |-> FALSE, GIT_SSH_COMMAND |-> 0]
  /\ op = ""
  /\ todo = <<>>
  /\ outcome = "idle"
  /\ err = ""
  /\ log = <<>>
  /\ lifecycle = 0
  /\ deleteFailed = FALSE
  /\ faults = 0
  /\ repeat = ""
  /\ roundTrip = NotRun
  /\ hosts = NotRun
  /\ action = NotRun

----------------------------------------------------------------------------
(* Calling a public method *)

static == <<settings, runnerTemp, stateSshKeyPath, stateSshKnownHostsPath>>
\* what the helper's methods never touch
beside == <<roundTrip, hosts, action>>
disk == <<files, keyFiles, knownHostsFiles, tempHomeDir>>
fields == <<sshKeyPath, sshKnownHostsPath, sshCommand, temporaryHomePath>>

Ev(e, key, val, g) == [e |-> e, key |-> key, val |-> val, g |-> g]

Call(m, steps) ==
  /\ todo = <<>>
  /\ op' = m
  /\ todo' = steps
  /\ outcome' = (IF steps = <<>> THEN "ok" ELSE "running")
  /\ err' = ""
  /\ log' = <<>>
  /\ deleteFailed' = FALSE
  /\ repeat' = (IF m = "removeAuth" /\ op = "removeAuth" /\ outcome = "ok"
                  THEN (IF deleteFailed THEN "retry" ELSE "again")
                  ELSE "")
  /\ lifecycle' =
       (IF lifecycle < Len(Lifecycle) /\ m = Lifecycle[lifecycle + 1]
           /\ (lifecycle = 0 \/ outcome = "ok")
          THEN lifecycle + 1
        ELSE IF m = Lifecycle[1] THEN 1
        ELSE 0)
  /\ UNCHANGED <<static, beside, disk, fields, gitEnv, uuidCount, faults>>

ConfigureAuth ==
  /\ (settings.sshKey /\ runnerTemp) => uuidCount < MaxUuid
  /\ Call("configureAuth", configureAuth)
ConfigureTempGlobalConfig == Call("configureTempGlobalConfig", configureTempGlobalConfig)
ConfigureGlobalAuth == Call("configureGlobalAuth", configureGlobalAuth)
ConfigureSubmoduleAuth == Call("configureSubmoduleAuth", configureSubmoduleAuth)
RemoveAuth == Call("removeAuth", removeAuth)
RemoveGlobalConfig == Call("removeGlobalConfig", removeGlobalConfig)

----------------------------------------------------------------------------
(* One awaited call *)

Running(l) == todo # <<>> /\ todo[1].l = l

\* the environment makes this call fail
Fault == faults < MaxFaults /\ faults' = faults + 1
NoFault == faults' = faults

\* the call returned: go on with `rest`
Return(rest) ==
  /\ todo' = rest
  /\ outcome' = (IF rest = <<>> THEN "ok" ELSE "running")
  /\ err' = err
  /\ lifecycle' = lifecycle
  /\ UNCHANGED <<op, repeat, static, beside>>

\* the call threw: into the catch block when inside the try, else to the caller
Throw(s, message) ==
  /\ err' = message
  /\ todo' = (IF s.try THEN CatchBlock ELSE <<>>)
  /\ outcome' = (IF s.try THEN "running" ELSE "error")
  /\ UNCHANGED <<lifecycle, op, repeat, static, beside>>

\* assert.ok fails
AssertionError ==
  /\ NoFault
  /\ Running("assert")
  /\ Throw(todo[1], todo[1].key)
  /\ UNCHANGED <<disk, fields, gitEnv, uuidCount, log, deleteFailed>>

----------------------------------------------------------------------------
(* removeSsh's deletions, lines 349-370 *)

\* this._sshKeyPath || stateHelper.SshKeyPath, and the same for known hosts
RmPath(s) ==
  IF s.key = "sshKey"
    THEN (IF sshKeyPath # 0 THEN sshKeyPath ELSE stateSshKeyPath)
    ELSE (IF sshKnownHostsPath # 0 THEN sshKnownHostsPath ELSE stateSshKnownHostsPath)

\* io.rmRF(path) succeeds, or there is no path and nothing is called
RmRF ==
  /\ NoFault
  /\ Running("rmRF")
  /\ LET s == todo[1]
         path == RmPath(s) IN
     /\ keyFiles' = (IF s.key = "sshKey" THEN keyFiles \ {path} ELSE keyFiles)
     /\ knownHostsFiles' =
          (IF s.key = "sshKey" THEN knownHostsFiles ELSE knownHostsFiles \ {path})
     /\ log' = (IF path # 0 THEN Append(log, Ev("rmRF", s.key, NoVal, FALSE)) ELSE log)
  /\ Return(Tail(todo))
  /\ UNCHANGED <<files, tempHomeDir, fields, gitEnv, uuidCount, deleteFailed>>

\* io.rmRF(path) throws: caught, a warning at most, and removeSsh goes on
RmRFFail ==
  /\ Fault
  /\ Running("rmRF")
  /\ LET s == todo[1]
         path == RmPath(s) IN
     /\ path \in (IF s.key = "sshKey" THEN keyFiles ELSE knownHostsFiles)
     /\ log' = Append(log, Ev("rmRF", s.key, NoVal, FALSE))
  /\ deleteFailed' = TRUE
  /\ Return(Tail(todo))
  /\ UNCHANGED <<disk, fields, gitEnv, uuidCount>>

----------------------------------------------------------------------------
(* removeGitConfig, lines 381-401 *)

\* if (!submoduleOnly) configExists(configKey) && tryConfigUnset(configKey);
\* then submoduleForeach(`git config --local --unset-all key || :`, true)
RemoveGitConfig ==
  /\ NoFault
  /\ Running("removeGitConfig")
  /\ LET s == todo[1]
         exists == GitConfigExists(files[LocalConfig].c, s.key) IN
     /\ files' = [p \in Paths |->
          IF p = LocalConfig /\ ~s.g /\ exists
            THEN File(GitTryConfigUnset(files[p].c, s.key).c)
          ELSE IF p.k = "sub" /\ p.i \in Visited(TRUE)
            THEN File(GitTryConfigUnset(files[p].c, s.key).c)
          ELSE files[p]]
     /\ log' = log
          \o (IF ~s.g THEN <<Ev("configExists", s.key, NoVal, FALSE)>> ELSE <<>>)
          \o (IF ~s.g /\ exists THEN <<Ev("tryConfigUnset", s.key, NoVal, FALSE)>> ELSE <<>>)
          \o <<Ev("submoduleForeach", s.key, NoVal, FALSE)>>
  /\ Return(Tail(todo))
  /\ UNCHANGED <<keyFiles, knownHostsFiles, tempHomeDir, fields, gitEnv, uuidCount,
                 deleteFailed>>

----------------------------------------------------------------------------
(* git.config and git.tryConfigUnset *)

\* the file `git config` works on; git creates a missing file in a directory
\* that exists
CanWrite(p) == p # TempGitConfig \/ tempHomeDir
ContentAt(p) == IF files[p].ex THEN files[p].c ELSE <<>>

GitConfig ==
  /\ NoFault
  /\ Running("config")
  /\ LET s == todo[1]
         p == TargetPath(s.g)
         r == GitConfigSet(ContentAt(p), s.key, Resolve(s.val), s.add) IN
     /\ CanWrite(p)
     /\ r.ok
     /\ files' = [files EXCEPT ![p] = File(r.c)]
     /\ log' = Append(log, Ev("config", s.key, Resolve(s.val), s.g))
  /\ Return(Tail(todo))
  /\ UNCHANGED <<keyFiles, knownHostsFiles, tempHomeDir, fields, gitEnv, uuidCount,
                 deleteFailed>>

\* git exits non-zero (several values to overwrite, a locked or unwritable
\* file): config throws
GitConfigFail ==
  /\ Running("config")
  /\ LET s == todo[1]
         p == TargetPath(s.g)
         r == GitConfigSet(ContentAt(p), s.key, Resolve(s.val), s.add) IN
     /\ IF CanWrite(p) /\ r.ok THEN Fault ELSE NoFault
     /\ log' = Append(log, Ev("config", s.key, Resolve(s.val), s.g))
     /\ Throw(s, "git config failed")
  /\ UNCHANGED <<disk, fields, gitEnv, uuidCount, deleteFailed>>

\* tryConfigUnset(key, global) never throws
TryConfigUnset ==
  /\ NoFault
  /\ Running("tryConfigUnset")
  /\ LET s == todo[1]
         p == TargetPath(s.g) IN
     /\ files' = (IF files[p].ex
                    THEN [files EXCEPT ![p] = File(GitTryConfigUnset(files[p].c, s.key).c)]
                    ELSE files)
     /\ log' = Append(log, Ev("tryConfigUnset", s.key, NoVal, s.g))
  /\ Return(Tail(todo))
  /\ UNCHANGED <<keyFiles, knownHostsFiles, tempHomeDir, fields, gitEnv, uuidCount,
                 deleteFailed>>

\* throw err, line 166
Rethrow ==
  /\ NoFault
  /\ Running("rethrow")
  /\ todo' = <<>>
  /\ outcome' = "error"
  /\ UNCHANGED <<err, lifecycle, op, repeat, static, beside, disk, fields, gitEnv, uuidCount, log,
                 deleteFailed>>

----------------------------------------------------------------------------
(* replaceTokenPlaceholder(configPath), lines 327-346 *)

ReplaceTokenPlaceholder ==
  /\ NoFault
  /\ Running("replace")
  /\ LET s == todo[1]
         r == replaceTokenPlaceholder(files[s.path].c) IN
     /\ files[s.path].ex
     /\ r.ok
     /\ files' = [files EXCEPT ![s.path] = File(r.c)]
     /\ log' = Append(log, Ev("writeFile", "config", NoVal, FALSE))
  /\ Return(Tail(todo))
  /\ UNCHANGED <<keyFiles, knownHostsFiles, tempHomeDir, fields, gitEnv, uuidCount,
                 deleteFailed>>

\* readFile throws on a missing file; the placeholder is not there exactly once
ReplaceTokenPlaceholderFail ==
  /\ NoFault
  /\ Running("replace")
  /\ LET s == todo[1]
         r == replaceTokenPlaceholder(files[s.path].c) IN
     /\ ~files[s.path].ex \/ ~r.ok
     /\ files' = (IF files[s.path].ex THEN [files EXCEPT ![s.path] = File(r.c)] ELSE files)
     /\ Throw(s, IF files[s.path].ex THEN "Unable to replace auth placeholder" ELSE "ENOENT")
  /\ UNCHANGED <<keyFiles, knownHostsFiles, tempHomeDir, fields, gitEnv, uuidCount, log,
                 deleteFailed>>

----------------------------------------------------------------------------
(* submoduleForeach with a command that sets a value, lines 178-205 *)

\* the submodules `git submodule foreach [--recursive]` enters, in order
VisitedSeq(recursive) ==
  LET V == Visited(recursive) IN
  [k \in 1..Cardinality(V) |->
     CHOOSE x \in V : Cardinality({y \in V : y < x}) = k - 1]

\* the command ran in the first n submodules entered
ForeachApplied(s, n) ==
  LET VS == VisitedSeq(settings.nestedSubmodules) IN
  [p \in Paths |->
     IF p.k = "sub" /\ \E j \in 1..n : VS[j] = p.i
       THEN File(GitConfigSet(files[p].c, s.key, Resolve(s.val), s.add).c)
       ELSE files[p]]
ForeachOk(s, n) ==
  LET VS == VisitedSeq(settings.nestedSubmodules) IN
  \A j \in 1..n : GitConfigSet(files[SubConfig(VS[j])].c, s.key, Resolve(s.val), s.add).ok

\* the match without the g flag: the first path only
ConfigPaths_FirstMatchOnly(output) ==
  [j \in 1..(IF Len(output) > 0 THEN 1 ELSE 0) |->
     Step("replace", "", NoVal, SubConfig(output[j]), FALSE, FALSE)]

\* const configPaths = output.match(/.../g) || []: the config file of each
\* submodule entered (lines 185-186)
ConfigPaths(output) ==
  [j \in 1..Len(output) |-> Step("replace", "", NoVal, SubConfig(output[j]), FALSE, FALSE)]

SubmoduleForeach ==
  /\ NoFault
  /\ todo # <<>> /\ todo[1].l \in {"subSet", "subPlaceholder"}
  /\ LET s == todo[1]
         VS == VisitedSeq(settings.nestedSubmodules) IN
     /\ ForeachOk(s, Len(VS))
     /\ files' = ForeachApplied(s, Len(VS))
     /\ log' = Append(log, Ev("submoduleForeach", s.key, Resolve(s.val), FALSE))
     /\ Return((IF s.l = "subPlaceholder" THEN ConfigPaths(VS) ELSE <<>>) \o Tail(todo))
  /\ UNCHANGED <<keyFiles, knownHostsFiles, tempHomeDir, fields, gitEnv, uuidCount,
                 deleteFailed>>

\* the command fails in a submodule: the ones entered before it keep the
\* value, and submoduleForeach throws
SubmoduleForeachFail ==
  /\ todo # <<>> /\ todo[1].l \in {"subSet", "subPlaceholder"}
  /\ LET s == todo[1]
         VS == VisitedSeq(settings.nestedSubmodules) IN
     \E n \in 0..(Len(VS) - 1) :
       /\ ForeachOk(s, n)
       /\ IF ForeachOk(s, n + 1) THEN Fault ELSE NoFault
       /\ files' = ForeachApplied(s, n)
       /\ log' = Append(log, Ev("submoduleForeach", s.key, Resolve(s.val), FALSE))
       /\ Throw(s, "git submodule foreach failed")
  /\ UNCHANGED <<keyFiles, knownHostsFiles, tempHomeDir, fields, gitEnv, uuidCount,
                 deleteFailed>>

----------------------------------------------------------------------------
(* configureSsh, lines 228-291 *)

\* uuidv4(), this._sshKeyPath, writeFile(this._sshKeyPath, key, {mode: 0o600})
WriteKey ==
  /\ NoFault
  /\ Running("writeKey")
  /\ uuidCount < MaxUuid
  /\ uuidCount' = uuidCount + 1
  /\ sshKeyPath' = uuidCount + 1
  /\ keyFiles' = keyFiles \cup {uuidCount + 1}
  /\ log' = Append(log, Ev("writeFile", "sshKey", NoVal, FALSE))
  /\ Return(Tail(todo))
  /\ UNCHANGED <<files, knownHostsFiles, tempHomeDir, sshKnownHostsPath, sshCommand,
                 temporaryHomePath, gitEnv, deleteFailed>>

\* this._sshKnownHostsPath = `${uniqueId}_known_hosts`, writeFile(it, knownHosts)
WriteKnownHosts ==
  /\ NoFault
  /\ Running("writeKnownHosts")
  /\ sshKnownHostsPath' = sshKeyPath
  /\ knownHostsFiles' = knownHostsFiles \cup {sshKeyPath}
  /\ log' = Append(log, Ev("writeFile", "sshKnownHosts", NoVal, FALSE))
  /\ Return(Tail(todo))
  /\ UNCHANGED <<files, keyFiles, tempHomeDir, sshKeyPath, sshCommand, temporaryHomePath,
                 gitEnv, uuidCount, deleteFailed>>

\* io.which('ssh', true), this._sshCommand, setEnvironmentVariable('GIT_SSH_COMMAND')
SetSshCommand ==
  /\ NoFault
  /\ Running("setSshCommand")
  /\ sshCommand' = sshKeyPath
  /\ gitEnv' = [gitEnv EXCEPT !.GIT_SSH_COMMAND = sshKeyPath]
  /\ log' = Append(log, Ev("setEnvironmentVariable", "GIT_SSH_COMMAND",
                           SshCommandValue(sshKeyPath), FALSE))
  /\ Return(Tail(todo))
  /\ UNCHANGED <<disk, sshKeyPath, sshKnownHostsPath, temporaryHomePath, uuidCount,
                 deleteFailed>>

\* io.which('ssh', true) throws: no ssh on the PATH
SetSshCommandFail ==
  /\ Fault
  /\ Running("setSshCommand")
  /\ Throw(todo[1], "Unable to locate executable file: ssh")
  /\ UNCHANGED <<disk, fields, gitEnv, uuidCount, log, deleteFailed>>

----------------------------------------------------------------------------
(* configureTempGlobalConfig, lines 99-138, and removeGlobalConfig, 216-220 *)

\* this._temporaryHomePath = <RUNNER_TEMP>/<uuid>, mkdir
MkdirTempHome ==
  /\ NoFault
  /\ Running("mkdirTempHome")
  /\ temporaryHomePath' = TRUE
  /\ tempHomeDir' = TRUE
  /\ log' = Append(log, Ev("mkdir", "temporaryHome", NoVal, FALSE))
  /\ Return(Tail(todo))
  /\ UNCHANGED <<files, keyFiles, knownHostsFiles, sshKeyPath, sshKnownHostsPath,
                 sshCommand, gitEnv, uuidCount, deleteFailed>>

\* copy the user's .gitconfig, or write an empty one; then override HOME
CopyGlobalConfig ==
  /\ NoFault
  /\ Running("copyGlobalConfig")
  /\ files' = [files EXCEPT ![TempGitConfig] =
                 IF files[UserGitConfig].ex THEN File(files[UserGitConfig].c) ELSE File(<<>>)]
  /\ gitEnv' = [gitEnv EXCEPT !.HOME = TRUE]
  /\ log' = log \o <<Ev("writeFile", "temporaryHome", NoVal, FALSE),
                     Ev("setEnvironmentVariable", "HOME", NoVal, FALSE)>>
  /\ Return(Tail(todo))
  /\ UNCHANGED <<keyFiles, knownHostsFiles, tempHomeDir, fields, uuidCount, deleteFailed>>

\* stat fails with another code than ENOENT, or the copy fails: HOME stays
CopyGlobalConfigFail ==
  /\ Fault
  /\ Running("copyGlobalConfig")
  /\ files[UserGitConfig].ex
  /\ Throw(todo[1], "copy failed")
  /\ UNCHANGED <<disk, fields, gitEnv, uuidCount, log, deleteFailed>>

\* removeEnvironmentVariable('HOME'), io.rmRF(this._temporaryHomePath)
RemoveHome ==
  /\ NoFault
  /\ Running("removeHome")
  /\ gitEnv' = [gitEnv EXCEPT !.HOME = FALSE]
  /\ tempHomeDir' = FALSE
  /\ files' = [files EXCEPT ![TempGitConfig] = NoFile]
  /\ log' = log \o <<Ev("removeEnvironmentVariable", "HOME", NoVal, FALSE),
                     Ev("rmRF", "temporaryHome", NoVal, FALSE)>>
  /\ Return(Tail(todo))
  /\ UNCHANGED <<keyFiles, knownHostsFiles, fields, uuidCount, deleteFailed>>

\* io.rmRF(this._temporaryHomePath) throws: nothing catches it
RemoveHomeFail ==
  /\ Fault
  /\ Running("removeHome")
  /\ tempHomeDir
  /\ gitEnv' = [gitEnv EXCEPT !.HOME = FALSE]
  /\ log' = log \o <<Ev("removeEnvironmentVariable", "HOME", NoVal, FALSE),
                     Ev("rmRF", "temporaryHome", NoVal, FALSE)>>
  /\ Throw(todo[1], "rmRF failed")
  /\ UNCHANGED <<disk, fields, uuidCount, deleteFailed>>

----------------------------------------------------------------------------

Next ==
  \/ ConfigureAuth
  \/ ConfigureTempGlobalConfig
  \/ ConfigureGlobalAuth
  \/ ConfigureSubmoduleAuth
  \/ RemoveAuth
  \/ RemoveGlobalConfig
  \/ AssertionError
  \/ RmRF
  \/ RmRFFail
  \/ RemoveGitConfig
  \/ GitConfig
  \/ GitConfigFail
  \/ TryConfigUnset
  \/ Rethrow
  \/ ReplaceTokenPlaceholder
  \/ ReplaceTokenPlaceholderFail
  \/ SubmoduleForeach
  \/ SubmoduleForeachFail
  \/ WriteKey
  \/ WriteKnownHosts
  \/ SetSshCommand
  \/ SetSshCommandFail
  \/ MkdirTempHome
  \/ CopyGlobalConfig
  \/ CopyGlobalConfigFail
  \/ RemoveHome
  \/ RemoveHomeFail

Spec == Init /\ [][Next]_vars

----------------------------------------------------------------------------
(* Properties *)

Idle == todo = <<>>
Returned(m) == op = m /\ todo = <<>> /\ outcome = "ok"
Raised(m) == op = m /\ todo = <<>> /\ outcome = "error"
LogHas(e) == \E i \in 1..Len(log) : log[i] = e
\* the calls made to the git command capability
GitCalls == {"config", "configExists", "tryConfigUnset", "submoduleForeach"}
Placeholders(p) == CountValue(files[p].c, tokenPlaceholderConfigValue)
Secrets(p) == CountValue(files[p].c, tokenConfigValue)

\* C1: no call to the git command capability carries the real token header
\* value in its arguments, only the placeholder; and the real value comes
\* into a config file only by replaceTokenPlaceholder's write of that file.
C1_NoSecretInGitCall ==
  \A i \in 1..Len(log) : log[i].e \in GitCalls => log[i].val # tokenConfigValue
C1_SecretOnlyByReplace ==
  \A p \in Paths :
    CountValue(files'[p].c, tokenConfigValue) > Secrets(p)
      => Running("replace") /\ todo[1].path = p
C1_SecretNeverInArguments ==
  []C1_NoSecretInGitCall /\ [][C1_SecretOnlyByReplace]_vars

\* C1 witness: configureAuth returned; git was handed the placeholder for the
\* token key, and the local config holds the real value
C1_Witness ==
  /\ Returned("configureAuth")
  /\ LogHas(Ev("config", tokenConfigKey, tokenPlaceholderConfigValue, FALSE))
  /\ Secrets(LocalConfig) = 1

\* C2: replaceTokenPlaceholder on a file that holds the placeholder zero times
\* or more than once raises an error and leaves the file as it was; it changes
\* the file only when the placeholder is there exactly once, and then the
\* placeholder is gone and the real value is there once more.
C2_ReplaceStep ==
  (Running("replace") /\ files[todo[1].path].ex) =>
    LET p == todo[1].path IN
    IF Placeholders(p) = 1
      THEN /\ CountValue(files'[p].c, tokenPlaceholderConfigValue) = 0
           /\ CountValue(files'[p].c, tokenConfigValue) = Secrets(p) + 1
           /\ err' = err
      ELSE /\ files' = files
           /\ err' = "Unable to replace auth placeholder"
           /\ outcome' = "error" \/ todo' = CatchBlock
C2_ReplaceExactlyOnce == [][C2_ReplaceStep]_vars

\* C2 witness: a replace has just failed on a file that holds the placeholder
\* twice
C2_Witness ==
  /\ err = "Unable to replace auth placeholder"
  /\ Raised("configureAuth")
  /\ Placeholders(LocalConfig) = 2

\* the other case of C2: a replace has failed on a file that exists and holds
\* no placeholder
C2_WitnessNone ==
  /\ err = "Unable to replace auth placeholder"
  /\ op = "configureGlobalAuth"
  /\ todo = CatchBlock
  /\ files[TempGitConfig].ex
  /\ Placeholders(TempGitConfig) = 0

\* C3: no config file ever holds the placeholder and the real value for the
\* token key together; the real value appears in a file only where the
\* placeholder stood just before; and when configureToken's replace has
\* succeeded, the file holds the real value exactly once and no placeholder.
C3_NeverBoth ==
  \A p \in Paths :
    ~ /\ CountEntry(files[p].c, tokenConfigKey, tokenPlaceholderConfigValue) > 0
      /\ CountEntry(files[p].c, tokenConfigKey, tokenConfigValue) > 0
C3_PlaceholderFirst ==
  \A p \in Paths :
    CountValue(files'[p].c, tokenConfigValue) > Secrets(p)
      => /\ CountEntry(files[p].c, tokenConfigKey, tokenPlaceholderConfigValue) = 1
         /\ CountEntry(files'[p].c, tokenConfigKey, tokenPlaceholderConfigValue) = 0
C3_AfterReplace ==
  (Running("replace") /\ err' = err) =>
    LET p == todo[1].path IN
    /\ CountValue(files'[p].c, tokenConfigValue) = 1
    /\ CountEntry(files'[p].c, tokenConfigKey, tokenConfigValue) = 1
    /\ CountValue(files'[p].c, tokenPlaceholderConfigValue) = 0
C3_PlaceholderThenSecret ==
  []C3_NeverBoth /\ [][C3_PlaceholderFirst /\ C3_AfterReplace]_vars

\* the lifecycle has run from configureAuth to removeGlobalConfig, each
\* method returning without error
LifecycleDone == lifecycle = Len(Lifecycle) /\ Returned("removeGlobalConfig")
HelperKeys == {tokenConfigKey, SSH_COMMAND_KEY, insteadOfKey}
NoEntry(p, k) == CountKey(files[p].c, k) = 0

\* C4: after configureAuth, configureGlobalAuth and configureSubmoduleAuth,
\* followed by removeAuth and removeGlobalConfig, nothing injected is left: no
\* SSH key file, no known-hosts file, no temporary HOME, and no token header,
\* core.sshCommand or insteadOf entry in the local config, the global config
\* or a submodule's config.  Stated for the runs in which no call failed.
C4_NoInjectedStateLeft ==
  (LifecycleDone /\ faults = 0) =>
    /\ keyFiles = {} /\ knownHostsFiles = {}
    /\ ~tempHomeDir
    /\ \A p \in Paths : \A k \in HelperKeys : NoEntry(p, k)

\* C5: removeAuth called twice in a row raises no error in either call, leaves
\* the local config without the token header key and without core.sshCommand,
\* and the second call changes nothing of what the first call left.
ProgramState ==
  <<files, keyFiles, knownHostsFiles, tempHomeDir, sshKeyPath, sshKnownHostsPath,
    sshCommand, temporaryHomePath, gitEnv>>
C5_NoErrorNoEntries ==
  /\ op' = "removeAuth" => outcome' # "error"
  /\ (op' = "removeAuth" /\ todo' = <<>>) =>
       /\ CountKey(files'[LocalConfig].c, tokenConfigKey) = 0
       /\ CountKey(files'[LocalConfig].c, SSH_COMMAND_KEY) = 0
C5_SecondCallChangesNothing ==
  (op = "removeAuth" /\ repeat # "") => ProgramState' = ProgramState
C5_SecondCallOnlyRetriesDeletion ==
  (op = "removeAuth" /\ repeat # "") =>
    /\ UNCHANGED <<files, tempHomeDir, fields, gitEnv>>
    /\ keyFiles' \subseteq keyFiles
    /\ knownHostsFiles' \subseteq knownHostsFiles
    /\ repeat = "again" => UNCHANGED <<keyFiles, knownHostsFiles>>
IsWrite(e) == e.e \in {"writeFile", "setEnvironmentVariable", "config", "mkdir"}
IsSshWrite(e) ==
  \/ e.e = "writeFile" /\ e.key \in {"sshKey", "sshKnownHosts"}
  \/ e.e = "setEnvironmentVariable" /\ e.key = "GIT_SSH_COMMAND"
  \/ e.e = "config" /\ e.key = SSH_COMMAND_KEY
IsTokenWrite(e) ==
  \/ e.e = "config" /\ e.key = tokenConfigKey
  \/ e.e = "writeFile" /\ e.key = "config"
PreCleanEnd == Ev("submoduleForeach", tokenConfigKey, NoVal, FALSE)
C6_ConfigureAuthOrder ==
  op = "configureAuth" =>
    /\ \A i \in 1..Len(log) :
         IsWrite(log[i]) =>
           /\ \E j \in 1..(i - 1) : log[j] = PreCleanEnd
           /\ \A j \in (i + 1)..Len(log) : log[j].e \notin {"rmRF", "tryConfigUnset"}
    /\ \A i, j \in 1..Len(log) : (IsSshWrite(log[i]) /\ IsTokenWrite(log[j])) => i < j
    /\ ~settings.sshKey =>
         /\ \A i \in 1..Len(log) : ~IsSshWrite(log[i])
         /\ sshKeyPath = 0 /\ sshKnownHostsPath = 0 /\ gitEnv.GIT_SSH_COMMAND = 0
    /\ (settings.sshKey /\ outcome = "ok") =>
         /\ LogHas(Ev("writeFile", "sshKey", NoVal, FALSE))
         /\ LogHas(Ev("writeFile", "sshKnownHosts", NoVal, FALSE))
         /\ gitEnv.GIT_SSH_COMMAND = sshKeyPath
    /\ outcome = "ok" =>
         LogHas(Ev("config", tokenConfigKey, tokenPlaceholderConfigValue, FALSE))

\* C6 witness: configureAuth with an SSH key and persisted credentials has
\* returned over stale entries: it removed, then wrote SSH, then the token
C6_Witness ==
  /\ Returned("configureAuth")
  /\ settings.sshKey /\ settings.persistCredentials
  /\ LogHas(Ev("rmRF", "sshKey", NoVal, FALSE))
  /\ LogHas(Ev("tryConfigUnset", tokenConfigKey, NoVal, FALSE))
  /\ CountEntry(files[LocalConfig].c, SSH_COMMAND_KEY, SshCommandValue(sshKeyPath)) = 1
  /\ Secrets(LocalConfig) = 1

\* C7: on any failure in configureGlobalAuth's sequence (materializing the
\* temporary HOME and redirecting HOME included) it attempts to unset the token
\* key in the global config before raising the error to the caller.
UnsetTokenGlobal == Ev("tryConfigUnset", tokenConfigKey, NoVal, TRUE)
C7_UnsetOnAnyFailure ==
  Raised("configureGlobalAuth") => LogHas(UnsetTokenGlobal)

\* C7 as amended: on a failure after configureTempGlobalConfig has returned
\* (writing the token config, replacing the placeholder, installing the
\* insteadOf rules) the last thing configureGlobalAuth does is to unset the
\* token key in the global config, and it then raises the original error; a
\* failure in configureTempGlobalConfig is raised with no unset attempted.
InTryBlock == LogHas(Ev("config", tokenConfigKey, tokenPlaceholderConfigValue, TRUE))
C7_UnsetOnFailureInTry ==
  Raised("configureGlobalAuth") =>
    IF InTryBlock
      THEN /\ log[Len(log)] = UnsetTokenGlobal
           /\ err \in {"git config failed", "ENOENT", "Unable to replace auth placeholder"}
      ELSE /\ ~LogHas(UnsetTokenGlobal)
           /\ err \in {"RUNNER_TEMP is not defined", "copy failed"}

\* C7 witness: the replace failed inside the try block, the token key was
\* unset and the error raised
C7_Witness ==
  /\ Raised("configureGlobalAuth")
  /\ err = "Unable to replace auth placeholder"
  /\ log[Len(log)] = UnsetTokenGlobal
  /\ NoEntry(TempGitConfig, tokenConfigKey)

\* C8: a failure to delete an ephemeral file or directory is never fatal:
\* neither removeAuth nor removeGlobalConfig raises, and removeAuth still
\* removes the core.sshCommand and token header entries.
C8_DeletionFailureNotFatal ==
  /\ op \in RemoveMethods => outcome # "error"
  /\ (Returned("removeAuth") /\ deleteFailed) =>
       NoEntry(LocalConfig, SSH_COMMAND_KEY) /\ NoEntry(LocalConfig, tokenConfigKey)

\* C9: after configureAuth with an SSH key and configureGlobalAuth, followed by
\* removeAuth and removeGlobalConfig, the HOME and GIT_SSH_COMMAND overrides
\* are no longer in effect.  Stated for the runs in which no call failed.
C9_EnvironmentRestored ==
  (LifecycleDone /\ settings.sshKey /\ faults = 0) =>
    gitEnv = [HOME |-> FALSE, GIT_SSH_COMMAND |-> 0]

\* C10: configureSubmoduleAuth with persistCredentials leaves, when it
\* returns, every submodule it entered without the placeholder and with the
\* real token value exactly once, each file replaced after the placeholder
\* was written; without persistCredentials it writes nothing into a
\* submodule, it only removes insteadOf entries.
C10_Returned ==
  (Returned("configureSubmoduleAuth") /\ settings.persistCredentials) =>
    /\ \A i \in Visited(settings.nestedSubmodules) :
         /\ Placeholders(SubConfig(i)) = 0
         /\ Secrets(SubConfig(i)) = 1
         /\ CountEntry(files[SubConfig(i)].c, tokenConfigKey, tokenConfigValue) = 1
    /\ \E i \in 1..Len(log) :
         /\ log[i] = Ev("submoduleForeach", tokenConfigKey, tokenPlaceholderConfigValue, FALSE)
         /\ Cardinality({j \in (i + 1)..Len(log) : log[j] = Ev("writeFile", "config", NoVal, FALSE)})
              = Cardinality(Visited(settings.nestedSubmodules))
         /\ \A j \in 1..(i - 1) : ~IsWrite(log[j])
C10_NotPersistedStep ==
  (op' = "configureSubmoduleAuth" /\ ~settings.persistCredentials) =>
    \A p \in Paths :
      /\ SelectSeq(files'[p].c, LAMBDA e : e.k # insteadOfKey)
           = SelectSeq(files[p].c, LAMBDA e : e.k # insteadOfKey)
      /\ CountKey(files'[p].c, insteadOfKey) <= CountKey(files[p].c, insteadOfKey)
      /\ p.k # "sub" => files'[p] = files[p]
C10_NotPersisted ==
  (Returned("configureSubmoduleAuth") /\ ~settings.persistCredentials) =>
    /\ \A i \in Subs : NoEntry(SubConfig(i), insteadOfKey)
    /\ log = <<Ev("submoduleForeach", insteadOfKey, NoVal, FALSE)>>
C10_SubmoduleTokens ==
  [](C10_Returned /\ C10_NotPersisted) /\ [][C10_NotPersistedStep]_vars

\* C10 witness: configureSubmoduleAuth has returned with persistCredentials
\* and nestedSubmodules, every submodule holding the real value
C10_Witness ==
  /\ Returned("configureSubmoduleAuth")
  /\ settings.persistCredentials /\ settings.nestedSubmodules
  /\ Cardinality(Visited(TRUE)) >= 2
  /\ \A i \in Subs : Secrets(SubConfig(i)) = 1 /\ Placeholders(SubConfig(i)) = 0

----------------------------------------------------------------------------
(* configureToken's two writes on one file: `git config key placeholder`,  *)
(* lines 317-321, then replaceTokenPlaceholder, lines 327-346, for every   *)
(* content the file can have before                                        *)

\* entries of a config file, at most this many
MaxLen == 3

\* what a line of the file can be before the helper writes: the user's own
\* entry, the token key with the real value or with the placeholder (left by
\* an earlier run), the placeholder under another server's header key
EntrySet ==
  {Entry(userKey, userValue), Entry(tokenConfigKey, tokenConfigValue),
   Entry(tokenConfigKey, tokenPlaceholderConfigValue),
   Entry(otherHeaderKey, tokenPlaceholderConfigValue)}
Contents == UNION {[1..n -> EntrySet] : n \in 0..MaxLen}

HelperUnused ==
  /\ settings = [sshKey |-> FALSE, persistCredentials |-> FALSE,
                 nestedSubmodules |-> FALSE, workflowOrganizationId |-> FALSE]
  /\ runnerTemp = TRUE
  /\ stateSshKeyPath = 0 /\ stateSshKnownHostsPath = 0
  /\ files = [p \in Paths |-> NoFile]
  /\ keyFiles = {} /\ knownHostsFiles = {} /\ tempHomeDir = FALSE
  /\ sshKeyPath = 0 /\ sshKnownHostsPath = 0 /\ sshCommand = 0
  /\ temporaryHomePath = FALSE
  /\ gitEnv = [HOME |-> FALSE, GIT_SSH_COMMAND |-> 0]
  /\ uuidCount = 0
  /\ op = "" /\ todo = <<>> /\ outcome = "idle" /\ err = "" /\ log = <<>>
  /\ lifecycle = 0 /\ deleteFailed = FALSE /\ faults = 0 /\ repeat = ""
helper ==
  <<static, disk, fields, gitEnv, uuidCount, op, todo, outcome, err, log, lifecycle,
    deleteFailed, faults, repeat>>

InitRoundTrip ==
  /\ HelperUnused
  /\ \E c \in Contents : roundTrip = [pc |-> "start", before |-> c, content |-> c]
  /\ hosts = NotRun
  /\ action = NotRun

\* await this._git.config(this._tokenConfigKey, this._tokenPlaceholderConfigValue)
WritePlaceholder ==
  /\ roundTrip.pc = "start"
  /\ LET r == GitConfigSet(roundTrip.content, tokenConfigKey,
                           tokenPlaceholderConfigValue, FALSE) IN
     roundTrip' = [roundTrip EXCEPT !.pc = IF r.ok THEN "placeholder" ELSE "config failed",
                                    !.content = r.c]
  /\ UNCHANGED <<helper, hosts, action>>

\* await this.replaceTokenPlaceholder(configPath)
Reveal ==
  /\ roundTrip.pc = "placeholder"
  /\ LET r == replaceTokenPlaceholder(roundTrip.content) IN
     roundTrip' = [roundTrip EXCEPT !.pc = IF r.ok THEN "revealed" ELSE "unable to replace",
                                    !.content = r.c]
  /\ UNCHANGED <<helper, hosts, action>>

NextRoundTrip == WritePlaceholder \/ Reveal
SpecRoundTrip == InitRoundTrip /\ [][NextRoundTrip]_vars

\* the file with the real value written directly as the token key's value
Direct == GitConfigSet(roundTrip.before, tokenConfigKey, tokenConfigValue, FALSE)
\* the file with the placeholder written as the token key's value
WithPlaceholder ==
  GitConfigSet(roundTrip.before, tokenConfigKey, tokenPlaceholderConfigValue, FALSE)
RoundTripOver == roundTrip.pc \in {"config failed", "revealed", "unable to replace"}
\* the revealed file differs from the one holding the placeholder in one
\* place only, where the real value stands for the placeholder
OneSpan(c, d) ==
  /\ Len(c) = Len(d)
  /\ \E i \in 1..Len(c) :
       /\ c[i] = Entry(tokenConfigKey, tokenPlaceholderConfigValue)
       /\ d[i] = Entry(tokenConfigKey, tokenConfigValue)
       /\ \A j \in 1..Len(c) : j # i => c[j] = d[j]

\* C11: for every content of the config file, writing the placeholder as
\* the token key's value and then replaceTokenPlaceholder gives exactly the
\* file that writing the real value directly gives, differing from the file
\* with the placeholder in the one substituted span only (and where git
\* refuses the direct write it refuses the placeholder too, the file staying
\* as it was).
C11_RoundTrip ==
  RoundTripOver =>
    IF Direct.ok
      THEN /\ roundTrip.pc = "revealed"
           /\ roundTrip.content = Direct.c
           /\ OneSpan(WithPlaceholder.c, roundTrip.content)
      ELSE roundTrip.pc = "config failed" /\ roundTrip.content = roundTrip.before

\* C11 as amended: the round trip gives the file of the direct write for
\* every content that holds the placeholder text nowhere but as the token
\* key's value; for a content holding it elsewhere replaceTokenPlaceholder
\* raises and the file keeps the placeholder it was given.
PlaceholderElsewhere ==
  \E i \in 1..Len(roundTrip.before) :
    /\ roundTrip.before[i].k # tokenConfigKey
    /\ roundTrip.before[i].v = tokenPlaceholderConfigValue
C11_RoundTripWithoutStrayPlaceholder ==
  RoundTripOver =>
    IF ~Direct.ok
      THEN roundTrip.pc = "config failed" /\ roundTrip.content = roundTrip.before
    ELSE IF PlaceholderElsewhere
      THEN /\ roundTrip.pc = "unable to replace"
           /\ roundTrip.content = WithPlaceholder.c
           /\ roundTrip.content # Direct.c
    ELSE /\ roundTrip.pc = "revealed"
         /\ roundTrip.content = Direct.c
         /\ OneSpan(WithPlaceholder.c, roundTrip.content)

\* C11 witness: a file that held the user's entry and a stale real value is
\* revealed again, equal to the direct write
C11_Witness ==
  /\ roundTrip.pc = "revealed"
  /\ roundTrip.before = <<Entry(userKey, userValue), Entry(tokenConfigKey, tokenConfigValue)>>
  /\ roundTrip.content = Direct.c

\* the calls that need the runner temp directory
NeedsRunnerTemp(m) ==
  \/ m \in {"configureGlobalAuth", "configureTempGlobalConfig"}
  \/ m = "configureAuth" /\ settings.sshKey
RUNNER_TEMP_Undefined == "RUNNER_TEMP is not defined"

\* C12: with RUNNER_TEMP undefined, configureAuth with an SSH key,
\* configureGlobalAuth and configureTempGlobalConfig end by raising
\* 'RUNNER_TEMP is not defined', once and with nothing tried after it; no
\* step of theirs creates a key file, a known-hosts file or the temporary
\* HOME, sets GIT_SSH_COMMAND or HOME, or adds a token or SSH config entry.
C12_Raised ==
  (~runnerTemp /\ NeedsRunnerTemp(op) /\ todo = <<>>) =>
    /\ outcome = "error" /\ err = RUNNER_TEMP_Undefined
    /\ \A i \in 1..Len(log) : ~IsWrite(log[i])
    /\ op # "configureAuth" => log = <<>>
C12_NothingProvisioned ==
  (~runnerTemp /\ NeedsRunnerTemp(op')) =>
    /\ keyFiles' \subseteq keyFiles
    /\ knownHostsFiles' \subseteq knownHostsFiles
    /\ ~tempHomeDir' /\ ~temporaryHomePath'
    /\ gitEnv' = [HOME |-> FALSE, GIT_SSH_COMMAND |-> 0]
    /\ sshKeyPath' = 0 /\ sshKnownHostsPath' = 0 /\ sshCommand' = 0
    /\ uuidCount' = uuidCount
    /\ \A p \in Paths : \A k \in {tokenConfigKey, SSH_COMMAND_KEY} :
         CountKey(files'[p].c, k) <= CountKey(files[p].c, k)
C12_RunnerTempUndefined == []C12_Raised /\ [][C12_NothingProvisioned]_vars

\* C12 witness: configureAuth with an SSH key has raised for the undefined
\* RUNNER_TEMP, after its removals and before any write
C12_Witness ==
  /\ Raised("configureAuth")
  /\ ~runnerTemp /\ settings.sshKey
  /\ err = RUNNER_TEMP_Undefined
  /\ LogHas(Ev("rmRF", "sshKey", NoVal, FALSE))
  /\ keyFiles = {} /\ sshKeyPath = 0

----------------------------------------------------------------------------
(* One run of the action: run(), lines 462-488, and the service it calls.  *)
(* The service (service.ts) is modelled from its specification:            *)
(* createPullRequest returns a pull request or raises;                     *)
(* mergePullRequestWithRetries returns an already merged pull request as   *)
(* it is, else requests the merge up to maxRetries times (once when        *)
(* maxRetries is zero), going on after a conflict or a transient failure,  *)
(* and raises a terminal error naming the pull request and the attempts    *)
(* when the bound is exhausted.                                            *)

\* largest maxRetries input
MaxRetries == 3

NoPull == [number |-> 0, merged |-> FALSE, sha |-> 0]
NoError == [kind |-> "", number |-> 0, attempts |-> 0]
Error(kind, number, attempts) == [kind |-> kind, number |-> number, attempts |-> attempts]
Outputs ==
  {"pull-request-number", "pull-request-url", "pull-request-operation",
   "pull-request-created", "pull-request-head-sha", "pull-request-merged"}
\* what the merge capability can answer to one request
Answers(capability) ==
  IF capability = "always conflict" THEN {"conflict"}
  ELSE {"merged", "conflict", "transient"}

InitAction ==
  /\ HelperUnused
  /\ roundTrip = NotRun
  /\ hosts = NotRun
  /\ \E autoMerge \in BOOLEAN, maxRetries \in 0..MaxRetries,
        capability \in {"always conflict", "any"} :
       action = [pc |-> "run", AUTO_MERGE |-> autoMerge, maxRetries |-> maxRetries,
                 capability |-> capability, pullRequest |-> NoPull, given |-> NoPull,
                 caller |-> "", attempts |-> 0, error |-> NoError, outputs |-> {},
                 failed |-> <<>>, info |-> <<>>]

\* const inputs = prepareInputValues(); const service = new Service(inputs)
PrepareInputValues ==
  /\ action.pc = "run"
  /\ action' = [action EXCEPT !.pc = "createPullRequest"]
  /\ UNCHANGED <<helper, roundTrip, hosts>>

PrepareInputValuesThrows ==
  /\ action.pc = "run"
  /\ action' = [action EXCEPT !.pc = "catch", !.error = Error("invalid inputs", 0, 0)]
  /\ UNCHANGED <<helper, roundTrip, hosts>>

\* let pullRequest = await service.createPullRequest();
\* if (inputs.AUTO_MERGE) pullRequest = await service.mergePullRequestWithRetries(pullRequest)
CreatePullRequest ==
  /\ action.pc = "createPullRequest"
  /\ \E merged \in BOOLEAN :
       LET pr == [number |-> 1, merged |-> merged, sha |-> 1] IN
       action' = [action EXCEPT !.pullRequest = pr,
                                !.pc = IF action.AUTO_MERGE THEN "merge" ELSE "setOutput",
                                !.given = IF action.AUTO_MERGE THEN pr ELSE NoPull,
                                !.caller = IF action.AUTO_MERGE THEN "run" ELSE "",
                                !.attempts = 0]
  /\ UNCHANGED <<helper, roundTrip, hosts>>

CreatePullRequestThrows ==
  /\ action.pc = "createPullRequest"
  /\ action' = [action EXCEPT !.pc = "catch",
                              !.error = Error("createPullRequest failed", 0, 0)]
  /\ UNCHANGED <<helper, roundTrip, hosts>>

\* attempts mergePullRequestWithRetries makes at most
MergeBound_RetriesAfterFirst == action.maxRetries + 1

MergeBound == IF action.maxRetries = 0 THEN 1 ELSE action.maxRetries

\* where mergePullRequestWithRetries returns to
Returns == IF action.caller = "run" THEN "setOutput" ELSE "returned"
\* where its error goes
Raises == IF action.caller = "run" THEN "catch" ELSE "raised"

\* a check that still sends one merge request for a merged pull request
MergeAlreadyMerged_RequestsAnyway ==
  /\ action.pc = "merge"
  /\ action.given.merged
  /\ action' = [action EXCEPT !.pc = Returns, !.pullRequest = action.given,
                              !.attempts = @ + 1]
  /\ UNCHANGED <<helper, roundTrip, hosts>>

\* the pull request is already merged when checked: return it
MergeAlreadyMerged ==
  /\ action.pc = "merge"
  /\ action.given.merged
  /\ action' = [action EXCEPT !.pc = Returns, !.pullRequest = action.given]
  /\ UNCHANGED <<helper, roundTrip, hosts>>

\* one merge request: merged, or a conflict (the middle branch is
\* synchronized again) or a transient failure (backoff), and another attempt
MergeAttempt ==
  /\ action.pc = "merge"
  /\ ~action.given.merged
  /\ action.attempts < MergeBound
  /\ \E answer \in Answers(action.capability) :
       IF answer = "merged"
         THEN action' = [action EXCEPT
                           !.attempts = @ + 1, !.pc = Returns,
                           !.pullRequest = [action.given EXCEPT !.merged = TRUE, !.sha = 2]]
         ELSE action' = [action EXCEPT !.attempts = @ + 1]
  /\ UNCHANGED <<helper, roundTrip, hosts>>

\* the attempts are exhausted: the terminal error
MergeExhausted ==
  /\ action.pc = "merge"
  /\ ~action.given.merged
  /\ action.attempts >= MergeBound
  /\ action' = [action EXCEPT
                  !.pc = Raises,
                  !.error = Error("merge failed", action.given.number, action.attempts)]
  /\ UNCHANGED <<helper, roundTrip, hosts>>

\* core.setOutput(...), six times; run's promise resolves
SetOutput ==
  /\ action.pc = "setOutput"
  /\ action' = [action EXCEPT !.outputs = Outputs, !.pc = "resolved"]
  /\ UNCHANGED <<helper, roundTrip, hosts>>

\* catch (error) { core.setFailed(workflowUtils.getErrorMessage(error)) }
SetFailed ==
  /\ action.pc = "catch"
  /\ action' = [action EXCEPT !.failed = Append(@, action.error), !.pc = "resolved"]
  /\ UNCHANGED <<helper, roundTrip, hosts>>

\* run().then(() => core.info('Action finished successfully'))
ActionFinished ==
  /\ action.pc = "resolved"
  /\ action' = [action EXCEPT !.info = Append(@, "Action finished successfully"),
                              !.pc = "finished"]
  /\ UNCHANGED <<helper, roundTrip, hosts>>

\* a caller hands the pull request it got back to mergePullRequestWithRetries
\* once more
MergeAgain ==
  /\ action.pc \in {"finished", "returned"}
  /\ action.pullRequest # NoPull
  /\ action.error = NoError
  /\ action.caller # "again"
  /\ action' = [action EXCEPT !.pc = "merge", !.given = action.pullRequest,
                              !.caller = IF action.caller \in {"", "run"} THEN "caller" ELSE "again",
                              !.attempts = 0]
  /\ UNCHANGED <<helper, roundTrip, hosts>>

NextAction ==
  \/ PrepareInputValues
  \/ PrepareInputValuesThrows
  \/ CreatePullRequest
  \/ CreatePullRequestThrows
  \/ MergeAlreadyMerged
  \/ MergeAttempt
  \/ MergeExhausted
  \/ SetOutput
  \/ SetFailed
  \/ ActionFinished
  \/ MergeAgain
SpecAction == InitAction /\ [][NextAction]_vars

\* the run is over, createPullRequest or mergePullRequestWithRetries having raised
RunFailed ==
  /\ action.pc = "finished"
  /\ action.error.kind \in {"createPullRequest failed", "merge failed"}

\* C13: when createPullRequest or mergePullRequestWithRetries raises, the
\* run calls setFailed exactly once, with that error, sets none of the
\* pull-request outputs and emits no success message.
C13_FailedRunReportsNoSuccess ==
  RunFailed =>
    /\ action.failed = <<action.error>>
    /\ action.outputs = {}
    /\ action.info = <<>>

----------------------------------------------------------------------------
(* The known-hosts file configureSsh writes, lines 250-277.  A text is the *)
(* sequence of its lines.                                                  *)

\* lines of a known_hosts input, at most this many
MaxHostLines == 2

HostLines == {"host-a ssh-rsa AAAA", "host-b ssh-ed25519 BBBB"}
Texts == UNION {[1..n -> HostLines] : n \in 0..MaxHostLines}

\* the known hosts with the input section written before the user's
knownHosts_InputFirst(userKnownHosts, sshKnownHosts) ==
  (IF sshKnownHosts # <<>>
     THEN <<"# Begin from input known hosts">> \o sshKnownHosts
          \o <<"# end from input known hosts">>
     ELSE <<>>)
  \o (IF userKnownHosts # <<>>
        THEN <<"# Begin from ~/.ssh/known_hosts">> \o userKnownHosts
             \o <<"# End from ~/.ssh/known_hosts">>
        ELSE <<>>)
  \o <<"# Begin implicitly added github.com", "github.com ssh-rsa AAAAB3NzaC1yc2E...",
       "# End implicitly added github.com">>

\* let knownHosts = ''; knownHosts += ...: lines 267-274
knownHosts(userKnownHosts, sshKnownHosts) ==
  (IF userKnownHosts # <<>>
     THEN <<"# Begin from ~/.ssh/known_hosts">> \o userKnownHosts
          \o <<"# End from ~/.ssh/known_hosts">>
     ELSE <<>>)
  \o (IF sshKnownHosts # <<>>
        THEN <<"# Begin from input known hosts">> \o sshKnownHosts
             \o <<"# end from input known hosts">>
        ELSE <<>>)
  \o <<"# Begin implicitly added github.com", "github.com ssh-rsa AAAAB3NzaC1yc2E...",
       "# End implicitly added github.com">>

\* the user's known_hosts: a text, or no file, or a file that cannot be read;
\* settings.sshKnownHosts: a text, empty when not supplied
InitKnownHosts ==
  /\ HelperUnused
  /\ roundTrip = NotRun
  /\ action = NotRun
  /\ \E file \in {[code |-> "", text |-> t] : t \in Texts}
                  \cup {[code |-> c, text |-> <<>>] : c \in {"ENOENT", "EACCES"}},
        input \in Texts :
       hosts = [pc |-> "readFile", file |-> file, sshKnownHosts |-> input,
                userKnownHosts |-> <<>>, written |-> <<>>]

\* userKnownHosts = (await fs.promises.readFile(userKnownHostsPath)).toString(),
\* '' when the file does not exist
ReadUserKnownHosts ==
  /\ hosts.pc = "readFile"
  /\ hosts.file.code \in {"", "ENOENT"}
  /\ hosts' = [hosts EXCEPT !.pc = "writeFile",
                            !.userKnownHosts = IF hosts.file.code = "ENOENT" THEN <<>>
                                               ELSE hosts.file.text]
  /\ UNCHANGED <<helper, roundTrip, action>>

\* if (err.code !== 'ENOENT') throw err
ReadUserKnownHostsThrows ==
  /\ hosts.pc = "readFile"
  /\ hosts.file.code \notin {"", "ENOENT"}
  /\ hosts' = [hosts EXCEPT !.pc = "raised"]
  /\ UNCHANGED <<helper, roundTrip, action>>

\* await fs.promises.writeFile(this._sshKnownHostsPath, knownHosts)
WriteKnownHostsFile ==
  /\ hosts.pc = "writeFile"
  /\ hosts' = [hosts EXCEPT !.pc = "written",
                            !.written = knownHosts(hosts.userKnownHosts, hosts.sshKnownHosts)]
  /\ UNCHANGED <<helper, roundTrip, action>>

NextKnownHosts == ReadUserKnownHosts \/ ReadUserKnownHostsThrows \/ WriteKnownHostsFile
SpecKnownHosts == InitKnownHosts /\ [][NextKnownHosts]_vars

\* a section: the text between its two marker lines, nothing when there is no text
Section(begin, text, end) == IF text = <<>> THEN <<>> ELSE <<begin>> \o text \o <<end>>
GithubSection ==
  <<"# Begin implicitly added github.com", "github.com ssh-rsa AAAAB3NzaC1yc2E...",
    "# End implicitly added github.com">>
UserText == IF hosts.file.code = "" THEN hosts.file.text ELSE <<>>
LastLines(t, n) == SubSeq(t, Len(t) - n + 1, Len(t))

\* C14: the known-hosts file written is, in this order, the user's
\* known_hosts between its markers (only if it is not empty), the supplied
\* known hosts between their markers (only if supplied) and the hardcoded
\* github.com entry, which is there and last whatever the other two are.
C14_KnownHostsSections ==
  hosts.pc = "written" =>
    /\ hosts.written =
         Section("# Begin from ~/.ssh/known_hosts", UserText, "# End from ~/.ssh/known_hosts")
         \o Section("# Begin from input known hosts", hosts.sshKnownHosts,
                    "# end from input known hosts")
         \o GithubSection
    /\ LastLines(hosts.written, 3) = GithubSection
    /\ Len(hosts.written) =
         3 + (IF UserText = <<>> THEN 0 ELSE Len(UserText) + 2)
           + (IF hosts.sshKnownHosts = <<>> THEN 0 ELSE Len(hosts.sshKnownHosts) + 2)

\* C14 witness: a file written from a user's known_hosts and supplied known
\* hosts, both sections there
C14_Witness ==
  /\ hosts.pc = "written"
  /\ hosts.file = [code |-> "", text |-> <<"host-a ssh-rsa AAAA">>]
  /\ hosts.sshKnownHosts = <<"host-b ssh-ed25519 BBBB">>
  /\ Len(hosts.written) = 9

\* a call of mergePullRequestWithRetries has been made and is over
MergeCallOver == action.caller # "" /\ action.pc # "merge"
MergeRaised == action.error.kind = "merge failed"

\* C15: mergePullRequestWithRetries never makes more merge requests than
\* maxRetries (one when maxRetries is 0); against a capability that always
\* reports a conflict it makes exactly that many and then raises the
\* terminal error, which names the pull request and the attempts made; and
\* the loop always has a next step until it returns or raises.
C15_MergeRetryBound ==
  LET N == action.maxRetries IN
  /\ action.attempts <= (IF N = 0 THEN 1 ELSE N)
  /\ MergeRaised =>
       /\ action.attempts = (IF N = 0 THEN 1 ELSE N)
       /\ action.error = Error("merge failed", action.given.number, action.attempts)
       /\ action.given.number = 1
  /\ (MergeCallOver /\ action.capability = "always conflict" /\ ~action.given.merged) =>
       /\ MergeRaised
       /\ N = 0 => action.attempts = 1
       /\ N > 0 => action.attempts = N
  /\ action.pc = "merge" => ENABLED (MergeAlreadyMerged \/ MergeAttempt \/ MergeExhausted)

\* C15 witness: with maxRetries = 2 and nothing but conflicts, two attempts
\* were made and the terminal error raised
C15_Witness ==
  /\ MergeRaised
  /\ action.maxRetries = 2 /\ action.capability = "always conflict"
  /\ action.attempts = 2
  /\ action.error = Error("merge failed", 1, 2)

\* C15 witness: with maxRetries = 0 one attempt was made
C15_WitnessZero ==
  MergeRaised /\ action.maxRetries = 0 /\ action.attempts = 1

\* C16: mergePullRequestWithRetries given a pull request that is already
\* merged returns it at once, merged, having sent no merge request, whatever
\* maxRetries is; the pull request a call returns is merged, so a call on it
\* returns the same again.
C16_Immediately ==
  (action.pc = "merge" /\ action.given.merged) =>
    /\ action'.pc = Returns
    /\ action'.pullRequest = action.given
    /\ action'.attempts = 0
    /\ action'.error = NoError
C16_Returned ==
  /\ (MergeCallOver /\ action.given.merged) =>
       /\ action.pc # "raised" /\ ~MergeRaised
       /\ action.pullRequest = action.given
       /\ action.pullRequest.merged
       /\ action.attempts = 0
  /\ (MergeCallOver /\ ~MergeRaised) => action.pullRequest.merged
  /\ (action.caller = "again" \/ (action.caller = "caller" /\ action.AUTO_MERGE)) =>
       action.given.merged
C16_AlreadyMerged == []C16_Returned /\ [][C16_Immediately]_vars

\* C16 witness: the pull request an earlier call returned was handed in
\* again, with maxRetries = 2, and came back as it was with no request sent
C16_Witness ==
  /\ action.caller = "again" /\ action.pc = "returned"
  /\ action.maxRetries = 2
  /\ action.given.merged /\ action.pullRequest = action.given
  /\ action.attempts = 0

\* the entries of the insteadOf key in the file `git config --global` works on
GlobalInsteadOf == ValuesOf(files[GlobalConfigPath].c, insteadOfKey)

\* C17: when configureGlobalAuth has returned, however many calls went
\* before, the global insteadOf key holds the helper's insteadOfValues, each
\* once and in order, if no SSH key is configured, and nothing if one is.
C17_GlobalInsteadOfExact ==
  Returned("configureGlobalAuth") =>
    /\ files[GlobalConfigPath].ex
    /\ GlobalInsteadOf =
         (IF settings.sshKey THEN <<>>
          ELSE [i \in 1..Len(insteadOfValues) |-> Entry(insteadOfKey, insteadOfValues[i])])

\* C17 witness: configureGlobalAuth has returned on a temporary HOME that an
\* earlier call had made, the two values of an organization's helper in place
C17_Witness ==
  /\ Returned("configureGlobalAuth")
  /\ ~LogHas(Ev("mkdir", "temporaryHome", NoVal, FALSE))
  /\ settings.workflowOrganizationId
  /\ Len(GlobalInsteadOf) = 2
  /\ GlobalInsteadOf[1].v # GlobalInsteadOf[2].v

\* the calls a step has added to the log
Added == IF Len(log') > Len(log) THEN SubSeq(log', Len(log) + 1, Len(log')) ELSE <<>>
AddedHas(e) == \E i \in 1..Len(Added) : Added[i] = e
MkdirTemporaryHome == Ev("mkdir", "temporaryHome", NoVal, FALSE)
CopyToTemporaryHome == Ev("writeFile", "temporaryHome", NoVal, FALSE)
OverrideHome == Ev("setEnvironmentVariable", "HOME", NoVal, FALSE)

\* C18: over any calls of configureTempGlobalConfig and configureGlobalAuth
\* the temporary HOME is made at most once, the global config copied into it
\* at most once and HOME overridden at most once: the directory is made only
\* while _temporaryHomePath is unset, _temporaryHomePath once set never
\* changes (so every call returns the same .gitconfig path), and the copy
\* and the override happen only in the call that made the directory, once.
C18_MaterializeOnce ==
  /\ temporaryHomePath => temporaryHomePath'
  /\ (AddedHas(MkdirTemporaryHome) \/ (tempHomeDir' /\ ~tempHomeDir)) =>
       ~temporaryHomePath /\ temporaryHomePath'
  /\ (AddedHas(CopyToTemporaryHome) \/ AddedHas(OverrideHome)
        \/ (gitEnv'.HOME /\ ~gitEnv.HOME)
        \/ (files'[TempGitConfig].ex /\ ~files[TempGitConfig].ex)) =>
       /\ LogHas(MkdirTemporaryHome)
       /\ ~LogHas(CopyToTemporaryHome) /\ ~LogHas(OverrideHome)
       /\ Len(Added) = 2
C18_LazyTemporaryHome == [][C18_MaterializeOnce]_vars

\* C18 witness: a configureGlobalAuth has returned on the temporary HOME an
\* earlier call had made, without making, copying or overriding again
C18_Witness ==
  /\ Returned("configureGlobalAuth")
  /\ temporaryHomePath /\ tempHomeDir /\ gitEnv.HOME
  /\ ~LogHas(MkdirTemporaryHome) /\ ~LogHas(CopyToTemporaryHome) /\ ~LogHas(OverrideHome)
  /\ Secrets(TempGitConfig) = 1

\* configureGlobalAuth is about to call config(tokenConfigKey, ..., true)
WritesGlobalToken ==
  /\ op = "configureGlobalAuth"
  /\ Running("config")
  /\ todo[1].g
  /\ todo[1].key = tokenConfigKey

\* C19: whenever configureGlobalAuth writes the token key with the global
\* flag, the HOME override is in effect and the temporary HOME directory
\* exists, so the write never goes to the user's own global config (stated
\* for runs in which no call has failed).
C19_GlobalTokenInTemporaryHome ==
  (WritesGlobalToken /\ faults = 0) =>
    /\ gitEnv.HOME
    /\ tempHomeDir
    /\ TargetPath(TRUE) = TempGitConfig

\* the token header values of the local config
LocalTokenValues == ValuesOf(files[LocalConfig].c, tokenConfigKey)
\* at most one SSH key file and at most one known-hosts file are on disk
AtMostOneOfEach == Cardinality(keyFiles) <= 1 /\ Cardinality(knownHostsFiles) <= 1

\* every SSH key file and known-hosts file on disk is the one removeSsh
\* would delete: the helper's current one or, before it has one, the saved one
KeyPath == IF sshKeyPath # 0 THEN sshKeyPath ELSE stateSshKeyPath
KnownHostsPath ==
  IF sshKnownHostsPath # 0 THEN sshKnownHostsPath ELSE stateSshKnownHostsPath
Tracked == keyFiles \subseteq {KeyPath} /\ knownHostsFiles \subseteq {KnownHostsPath}

\* C20: with an SSH key supplied and deletions succeeding, at most one SSH
\* key file and at most one known-hosts file are on disk: while no call has
\* failed the only files on disk are the ones the next removeSsh deletes, so
\* at most one of each, and no step of a call in which no deletion has failed
\* leaves an earlier file behind; and after a successful configureAuth the
\* local config holds exactly one value for the token header key, the real
\* one.
C20_NoLeakStep ==
  (settings.sshKey /\ ~deleteFailed' /\ Tracked) => (Tracked' /\ AtMostOneOfEach')
C20_OneTokenValue ==
  Returned("configureAuth") =>
    LocalTokenValues = <<Entry(tokenConfigKey, tokenConfigValue)>>
C20_CleanSlate ==
  /\ []((settings.sshKey /\ faults = 0) => (Tracked /\ AtMostOneOfEach))
  /\ []C20_OneTokenValue
  /\ [][C20_NoLeakStep]_vars

\* C20 witness: a second configureAuth with an SSH key has returned: the one
\* key file and the one known-hosts file are those of the second call
C20_Witness ==
  /\ Returned("configureAuth")
  /\ settings.sshKey
  /\ ~deleteFailed
  /\ stateSshKeyPath = 0
  /\ uuidCount = 2
  /\ keyFiles = {2} /\ knownHostsFiles = {2}
  /\ sshKeyPath = 2
  /\ Len(LocalTokenValues) = 1

\* the rewrite entries and the core.sshCommand entries of submodule i
SubInsteadOf(i) == ValuesOf(files[SubConfig(i)].c, insteadOfKey)
SubSshCommand(i) == ValuesOf(files[SubConfig(i)].c, SSH_COMMAND_KEY)
RewriteEntries ==
  [j \in 1..Len(insteadOfValues) |-> Entry(insteadOfKey, insteadOfValues[j])]

\* what a step gives a submodule: a rewrite entry is added only without an
\* SSH key, core.sshCommand is set by configureSubmoduleAuth only with one,
\* and both only when credentials are to be persisted
C21_Receives ==
  \A i \in Subs :
    /\ Len(SubInsteadOf(i)') > Len(SubInsteadOf(i)) =>
         /\ op' = "configureSubmoduleAuth"
         /\ settings.persistCredentials /\ ~settings.sshKey
         /\ i \in Visited(settings.nestedSubmodules)
    /\ (op' = "configureSubmoduleAuth" /\ SubSshCommand(i)' # SubSshCommand(i)) =>
         /\ settings.persistCredentials /\ settings.sshKey
         /\ i \in Visited(settings.nestedSubmodules)

\* after configureSubmoduleAuth has returned: with an SSH key the submodules
\* entered hold the one core.sshCommand and no submodule a rewrite entry;
\* without one the submodules entered hold exactly the rewrite values, each
\* once, and the others none
C21_Returned ==
  (Returned("configureSubmoduleAuth") /\ settings.persistCredentials) =>
    \A i \in Subs :
      IF settings.sshKey
        THEN /\ SubInsteadOf(i) = <<>>
             /\ i \in Visited(settings.nestedSubmodules) =>
                  SubSshCommand(i) = <<Entry(SSH_COMMAND_KEY, SshCommandValue(sshCommand))>>
        ELSE SubInsteadOf(i) =
               (IF i \in Visited(settings.nestedSubmodules) THEN RewriteEntries ELSE <<>>)

\* no submodule ever holds a rewrite value twice
C21_AtMostOnce ==
  \A i \in Subs : \A j \in 1..Len(SubInsteadOf(i)) : \A k \in 1..Len(SubInsteadOf(i)) :
    SubInsteadOf(i)[j] = SubInsteadOf(i)[k] => j = k

\* C21: configureSubmoduleAuth with credentials persisted gives the
\* submodules either core.sshCommand (with an SSH key) or the HTTPS insteadOf
\* rewrite values (without one), never both; the earlier insteadOf values are
\* removed from every submodule first, so that also after repeated calls a
\* submodule holds each rewrite value at most once.
C21_SubmoduleEitherOr ==
  /\ []C21_Returned
  /\ []C21_AtMostOnce
  /\ [][C21_Receives]_vars

\* C21 witness: on submodules that held a rewrite value of an earlier call,
\* configureSubmoduleAuth has returned without an SSH key: the submodule
\* holds the two rewrite values once each
C21_Witness ==
  /\ Returned("configureSubmoduleAuth")
  /\ settings.persistCredentials /\ ~settings.sshKey /\ settings.workflowOrganizationId
  /\ stateSshKeyPath = 1
  /\ SubInsteadOf(1) = RewriteEntries
  /\ Len(RewriteEntries) = 2
  /\ SubSshCommand(1) = <<>>

====
